---------------------------- MODULE Spec2Model ----------------------------
(***************************************************************************)
(* A model of src/src/secrets.js: the secret resolution engine             *)
(* (getSecrets), its authorization gate (isAllowed), the selector resolver *)
(* (selectData) and selectAndAppendResults.                                *)
(*                                                                         *)
(* JavaScript strings are sequences of one-character strings, so that      *)
(* startsWith, includes, concatenation, quoting and glob matching are      *)
(* computed and not tabulated.  JSON values are records [t, s, e]: t is    *)
(* the JSON type, s the text of a scalar, e the entries of an object in    *)
(* key iteration order.                                                    *)
(***************************************************************************)
EXTENDS Integers, Sequences, FiniteSets, TLC

VARIABLES
    secretRequests,   \* getSecrets' first argument
    env,              \* process.env: the five identity attributes
    ignoreInput,      \* what core.getInput('ignoreNotFound') returns
    pc,               \* position of the getSecrets invocation
    idx,              \* index of the request the for-of loop is at
    responseCache,    \* the Map of line 28, as a function requestPath -> raw body
    results,          \* let results (line 29)
    upperCaseEnv,     \* let upperCaseEnv (line 30)
    body,             \* let body (line 36), the raw text before line 62
    cachedResponse,   \* let cachedResponse (line 37)
    returned,         \* the value the promise resolved with
    error,            \* the error the promise rejected with
    gets,             \* history: the request path of every client.get issued
    trail,            \* history: what happened to each request reached so far
    call,             \* a direct call of an exported or internal function
    reply,            \* what that call returned or threw
    heap,             \* the request objects: those of secretRequests first, in
                      \* the list's order, then those Object.assign made
    refs              \* for each entry of results, the object its request is

vars == << secretRequests, env, ignoreInput, pc, idx, responseCache, results,
           upperCaseEnv, body, cachedResponse, returned, error, gets, trail, call,
           reply, heap, refs >>

---------------------------------------------------------------------------
(* Bounds of the model.                                                    *)

\* the longest batch of requests handed to getSecrets
MaxRequests == 3

---------------------------------------------------------------------------
(* Strings.                                                                *)

StartsWith(s, prefix) ==
    /\ Len(s) >= Len(prefix)
    /\ SubSeq(s, 1, Len(prefix)) = prefix

Includes(s, c) == \E i \in 1..Len(s) : s[i] = c

X_K8S == <<"x", "-", "k", "8", "s", "-">>
X_GITHUB == <<"x", "-", "g", "i", "t", "h", "u", "b", "-">>

K_PODNAME == X_K8S \o <<"p", "o", "d", "n", "a", "m", "e">>
K_NAMESPACE == X_K8S \o <<"n", "a", "m", "e", "s", "p", "a", "c", "e">>
K_SERVICEACCOUNT ==
    X_K8S \o <<"s", "e", "r", "v", "i", "c", "e", "a", "c", "c", "o", "u", "n", "t">>
K_ACTOR == X_GITHUB \o <<"a", "c", "t", "o", "r">>
K_REPO == X_GITHUB \o <<"r", "e", "p", "o">>

DATA == <<"d", "a", "t", "a">>

---------------------------------------------------------------------------
(* JSON values.                                                            *)

Undefined == [t |-> "undefined", s |-> <<>>, e |-> <<>>]
StrV(s) == [t |-> "string", s |-> s, e |-> <<>>]
NumV(s) == [t |-> "number", s |-> s, e |-> <<>>]
ObjV(e) == [t |-> "object", s |-> <<>>, e |-> e]
Entry(k, v) == [k |-> k, v |-> v]

\* key in obj
HasKey(obj, key) == \E i \in 1..Len(obj.e) : obj.e[i].k = key

\* obj[key]
Get(obj, key) ==
    IF obj.t = "object" /\ HasKey(obj, key)
    THEN obj.e[CHOOSE i \in 1..Len(obj.e) : obj.e[i].k = key].v
    ELSE Undefined

---------------------------------------------------------------------------
(* minimatch(p, pattern): the glob match of the subject p against pattern, *)
(* for patterns made of literal characters, '*' and '?'.  A '*' or '?'     *)
(* never matches a '/'.                                                    *)

RECURSIVE minimatch(_, _)
minimatch(p, pattern) ==
    IF pattern = <<>> THEN p = <<>>
    ELSE LET h == Head(pattern)
             t == Tail(pattern)
         IN  IF h = "*"
             THEN \/ minimatch(p, t)
                  \/ p # <<>> /\ Head(p) # "/" /\ minimatch(Tail(p), pattern)
             ELSE IF h = "?"
             THEN p # <<>> /\ Head(p) # "/" /\ minimatch(Tail(p), t)
             ELSE p # <<>> /\ Head(p) = h /\ minimatch(Tail(p), t)

---------------------------------------------------------------------------
(* What a call does: it returns a value or throws an error.                *)

Err(kind, about) == [kind |-> kind, about |-> about]
NoError == Err("none", <<>>)
Ret(v) == [threw |-> FALSE, val |-> v, err |-> NoError]
Throw(err) == [threw |-> TRUE, val |-> <<>>, err |-> err]

\* the TypeError of an 'in' or a property read on undefined or a primitive
TypeError == Err("TypeError", <<>>)

---------------------------------------------------------------------------
(* isAllowed (lines 129-212).  data is the value handed in; the 'in'       *)
(* operator of line 133 throws a TypeError when data is not an object.     *)

\* one of the five checks: the key is present and process.env's value
\* matches the attribute's value as the glob pattern
AttributeCheck(data, key, subject) ==
    IF HasKey(data, key)
    THEN minimatch(subject, Get(data, key).s)
    ELSE FALSE

\* mutant: the payload's value is the subject and process.env's the pattern
isAllowedSwapped(data, e) ==
    IF data.t # "object" THEN Throw(TypeError)
    ELSE Ret(\A a \in { <<K_PODNAME, e.JOB_POD_NAME>>,
                        <<K_NAMESPACE, e.JOB_POD_NAMESPACE>>,
                        <<K_SERVICEACCOUNT, e.JOB_POD_SERVICEACCOUNT>>,
                        <<K_ACTOR, e.GITHUB_ACTOR>>,
                        <<K_REPO, e.GITHUB_REPOSITORY>> } :
                HasKey(data, a[1]) /\ minimatch(Get(data, a[1]).s, a[2]))

isAllowed(data, e) ==
    IF data.t # "object" THEN Throw(TypeError)
    ELSE IF ~AttributeCheck(data, K_PODNAME, e.JOB_POD_NAME) THEN Ret(FALSE)
    ELSE IF ~AttributeCheck(data, K_NAMESPACE, e.JOB_POD_NAMESPACE) THEN Ret(FALSE)
    ELSE IF ~AttributeCheck(data, K_SERVICEACCOUNT, e.JOB_POD_SERVICEACCOUNT)
         THEN Ret(FALSE)
    ELSE IF ~AttributeCheck(data, K_ACTOR, e.GITHUB_ACTOR) THEN Ret(FALSE)
    ELSE IF ~AttributeCheck(data, K_REPO, e.GITHUB_REPOSITORY) THEN Ret(FALSE)
    ELSE Ret(TRUE)

---------------------------------------------------------------------------
(* jsonata: the selector expressions the engine builds and is given are    *)
(* paths of field names, each a bare name, a double-quoted string or a     *)
(* backtick-quoted name, separated by dots.                                *)

DQ == "\""
\* the backtick character (written out: a TLA+ string cannot hold it)
BT == "BACKTICK"

\* the selector cut at each '.' outside quotes; q is the open quote, or empty
RECURSIVE SplitSteps(_, _, _)
SplitSteps(s, cur, q) ==
    IF s = <<>> THEN <<[text |-> cur, open |-> q # ""]>>
    ELSE LET c == Head(s) IN
         IF q # "" THEN SplitSteps(Tail(s), Append(cur, c), IF c = q THEN "" ELSE q)
         ELSE IF c = "." THEN <<[text |-> cur, open |-> FALSE]>> \o SplitSteps(Tail(s), <<>>, "")
         ELSE IF c \in {DQ, BT} THEN SplitSteps(Tail(s), Append(cur, c), c)
         ELSE SplitSteps(Tail(s), Append(cur, c), "")

Quoted(tok, q) == Len(tok) >= 2 /\ tok[1] = q /\ tok[Len(tok)] = q
Inner(tok) == SubSeq(tok, 2, Len(tok) - 1)

Step(tok) ==
    IF Quoted(tok, DQ) THEN [type |-> "string", value |-> Inner(tok)]
    ELSE IF Quoted(tok, BT) THEN [type |-> "name", value |-> Inner(tok)]
    ELSE [type |-> "name", value |-> tok]

\* jsonata(selector).ast(): a lone string literal is of type string; anything
\* else is a path, in which a string literal step is a field name
Malformed(toks) == \E i \in 1..Len(toks) : toks[i].open \/ toks[i].text = <<>>

Steps(toks) == [i \in 1..Len(toks) |-> Step(toks[i].text)]

Ast(steps) ==
    IF Len(steps) = 1 /\ steps[1].type = "string"
    THEN [type |-> "string", steps |-> steps]
    ELSE [type |-> "path",
          steps |-> [i \in 1..Len(steps) |-> [type |-> "name", value |-> steps[i].value]]]

Parse(toks) ==
    IF Malformed(toks) THEN [type |-> "error", steps |-> <<>>] ELSE Ast(Steps(toks))

jsonata(selector) == Parse(SplitSteps(selector, <<>>, ""))

\* the path's steps from the i-th on, applied to v
RECURSIVE EvaluatePath(_, _, _)
EvaluatePath(steps, i, v) ==
    IF i > Len(steps) THEN v
    ELSE IF v.t # "object" THEN Undefined
    ELSE EvaluatePath(steps, i + 1, Get(v, steps[i].value))

\* ata.evaluate(data)
Evaluate(ata, data) ==
    IF ata.type = "string" THEN StrV(ata.steps[1].value)
    ELSE EvaluatePath(ata.steps, 1, data)

---------------------------------------------------------------------------
(* JSON.stringify and JSON.parse of a string literal.  The strings of the  *)
(* model hold no character that JSON escapes.                              *)

RECURSIVE StringifyEntries(_, _)
JSONStringify(v) ==
    IF v.t = "undefined" THEN Undefined
    ELSE IF v.t = "string" THEN StrV(<<DQ>> \o v.s \o <<DQ>>)
    ELSE IF v.t = "number" THEN StrV(v.s)
    ELSE StrV(<<"{">> \o StringifyEntries(v.e, 1) \o <<"}">>)

StringifyEntries(e, i) ==
    IF i > Len(e) THEN <<>>
    ELSE (IF i > 1 THEN <<",">> ELSE <<>>)
         \o <<DQ>> \o e[i].k \o <<DQ, ":">>
         \o JSONStringify(e[i].v).s
         \o StringifyEntries(e, i + 1)

\* JSON.parse of a text that starts with a double quote
JSONParseString(text) == SubSeq(text, 2, Len(text) - 1)

---------------------------------------------------------------------------
(* selectData (lines 219-234).                                             *)

SelectorNotFound(selector) == Err("SelectorNotFound", selector)
JsonataError(selector) == Err("JsonataError", selector)

\* mutant: the string literal is not unwrapped
UnwrapNot(result) == result

\* lines 230-233, result being a string
Unwrap(result) ==
    IF StartsWith(result, <<DQ>>) THEN JSONParseString(result) ELSE result

DATA_DOT == DATA \o <<".">>

\* mutant: the retry is made for a path of any number of steps
CompatAnyPath(ata, data, selector) ==
    /\ ata.type \in {"path", "string"}
    /\ selector # DATA
    /\ HasKey(data, DATA)

\* line 224: the conditions of the retry, result being empty
Compat(ata, data, selector) ==
    /\ \/ ata.type = "path" /\ Len(ata.steps) = 1
       \/ ata.type = "string"
    /\ selector # DATA
    /\ HasKey(data, DATA)

\* lines 225 and 230-233: the retry's result goes to line 230 untested, and
\* undefined has no startsWith
Retried(again) ==
    IF again.t = "undefined" THEN Throw(TypeError) ELSE Ret(Unwrap(again.s))

\* lines 224-233, result being JSON.stringify of the first evaluation
Selected(ata, data, selector, result) ==
    IF result.t = "undefined" /\ Compat(ata, data, selector)
    THEN Retried(JSONStringify(Evaluate(jsonata(DATA_DOT \o selector), data)))
    ELSE IF result.t = "undefined" THEN Throw(SelectorNotFound(selector))
    ELSE Ret(Unwrap(result.s))

\* lines 221-233, ata being jsonata(selector)
SelectWith(ata, data, selector) ==
    IF ata.type = "error" THEN Throw(JsonataError(selector))
    ELSE Selected(ata, data, selector, JSONStringify(Evaluate(ata, data)))

selectData(data, selector) == SelectWith(jsonata(selector), data, selector)

---------------------------------------------------------------------------
(* The wildcard markers of ./constants and normalizeOutputKey of ./utils.  *)

WILDCARD == <<"*">>
WILDCARD_UPPERCASE == <<"*", "*">>

LOWER == << "a", "b", "c", "d", "e", "f", "g", "h", "i", "j", "k", "l", "m",
            "n", "o", "p", "q", "r", "s", "t", "u", "v", "w", "x", "y", "z" >>
UPPER == << "A", "B", "C", "D", "E", "F", "G", "H", "I", "J", "K", "L", "M",
            "N", "O", "P", "Q", "R", "S", "T", "U", "V", "W", "X", "Y", "Z" >>
DIGITS == {"0", "1", "2", "3", "4", "5", "6", "7", "8", "9"}
Range(f) == {f[i] : i \in DOMAIN f}

ToUpperCase(s) ==
    [i \in 1..Len(s) |->
        IF s[i] \in Range(LOWER)
        THEN UPPER[CHOOSE j \in 1..Len(LOWER) : LOWER[j] = s[i]]
        ELSE s[i]]

ToLowerCase(s) ==
    [i \in 1..Len(s) |->
        IF s[i] \in Range(UPPER)
        THEN LOWER[CHOOSE j \in 1..Len(UPPER) : UPPER[j] = s[i]]
        ELSE s[i]]

\* s with its first '.' replaced by two underscores
RECURSIVE ReplaceFirstDot(_)
ReplaceFirstDot(s) ==
    IF s = <<>> THEN <<>>
    ELSE IF Head(s) = "." THEN <<"_", "_">> \o Tail(s)
    ELSE <<Head(s)>> \o ReplaceFirstDot(Tail(s))

IsIdentifierChar(c) == c \in Range(LOWER) \cup Range(UPPER) \cup DIGITS \cup {"_"}

normalizeOutputKey(dataKey, upperCase) ==
    LET outputKey == SelectSeq(ReplaceFirstDot(dataKey), IsIdentifierChar)
    IN  IF upperCase THEN ToUpperCase(outputKey) ELSE outputKey

---------------------------------------------------------------------------
(* selectAndAppendResults (lines 246-271).                                 *)

Result(request, value, cached) ==
    [request |-> request, value |-> value, cachedResponse |-> cached]

\* lines 253-260: the selector handed to selectData
FullSelector(selector, parsed) ==
    DATA_DOT
    \o (IF Get(Get(parsed, DATA), DATA) # Undefined THEN DATA_DOT ELSE <<>>)
    \o (IF ~Includes(selector, ".") THEN <<DQ>> \o selector \o <<DQ>> ELSE selector)

\* mutant: the new result is put in front of the list
Prepended(value, cached, secretRequest, res) ==
    IF value.threw THEN value
    ELSE Ret(<<Result(secretRequest, value.val, cached)>> \o res)

\* lines 263-270, value being what selectData returned or threw
Appended(value, cached, secretRequest, res) ==
    IF value.threw THEN value
    ELSE Ret(Append(res, Result(secretRequest, value.val, cached)))

selectAndAppendResults(selector, parsed, cached, secretRequest, res) ==
    Appended(selectData(parsed, FullSelector(selector, parsed)), cached, secretRequest, res)

---------------------------------------------------------------------------
(* The wildcard branch of getSecrets (lines 67-110).                       *)

\* mutant: only the x-k8s- keys are skipped
IsReservedK8sOnly(key) == StartsWith(key, X_K8S)

\* line 76
IsReserved(key) == StartsWith(key, X_K8S) \/ StartsWith(key, X_GITHUB)

\* mutant: the names are the key, whatever the request's own names are
NewRequestKeyOnly(secretRequest, key, upper) ==
    [path |-> secretRequest.path,
     selector |-> key,
     outputVarName |-> normalizeOutputKey(key, FALSE),
     envVarName |-> normalizeOutputKey(key, upper)]

\* lines 79-91
NewRequest(secretRequest, key, upper) ==
    LET byKey == secretRequest.selector = secretRequest.outputVarName
        out == IF byKey THEN key ELSE secretRequest.outputVarName \o key
        ev == IF byKey THEN key ELSE secretRequest.envVarName \o key
    IN  [path |-> secretRequest.path,
         selector |-> key,
         outputVarName |-> normalizeOutputKey(out, FALSE),
         envVarName |-> normalizeOutputKey(ev, upper)]

\* lines 96-100: a key that holds a '.' goes between backticks
KeySelector(key) == IF Includes(key, ".") THEN <<BT>> \o key \o <<BT>> ELSE key

\* one turn of the for-in loop of line 74, prev being what the turns before
\* made of results, or the error one of them threw
ExpandKey(prev, key, secretRequest, parsed, cached, upper) ==
    IF prev.threw \/ IsReserved(key) THEN prev
    ELSE selectAndAppendResults(KeySelector(key), parsed, cached,
                                NewRequest(secretRequest, key, upper), prev.val)

\* the turns of the for-in loop for the entries left, prev being what the
\* turns before made; loop holds what every turn is handed
RECURSIVE ExpandFrom(_, _, _)
ExpandFrom(entries, prev, loop) ==
    IF entries = <<>> THEN prev
    ELSE ExpandFrom(Tail(entries),
                    ExpandKey(prev, Head(entries).k, loop.secretRequest, loop.parsed,
                              loop.cached, loop.upper),
                    loop)

\* the for-in loop of lines 74-109 over the keys in iteration order
ExpandKeys(keys, secretRequest, parsed, cached, upper, res) ==
    ExpandFrom(keys.e, Ret(res),
               [secretRequest |-> secretRequest, parsed |-> parsed, cached |-> cached,
                upper |-> upper])

---------------------------------------------------------------------------
(* The payloads the store serves.  A raw body is the number of a wire text *)
(* and JSON.parse (line 62) gives the document that text encodes, or       *)
(* throws a SyntaxError.                                                   *)

S(text) == StrV(text)

\* process.env of the run
JobEnv ==
    [JOB_POD_NAME |-> <<"p", "o", "d", "-", "1">>,
     JOB_POD_NAMESPACE |-> <<"n", "s">>,
     JOB_POD_SERVICEACCOUNT |-> <<"s", "a">>,
     GITHUB_ACTOR |-> <<"a", "m", "y">>,
     GITHUB_REPOSITORY |-> <<"o", "/", "r">>]

FOO == <<"f", "o", "o">>
BAR == <<"b", "a", "r">>
C_DOT_D == <<"c", ".", "d">>

A_POD == Entry(K_PODNAME, S(<<"p", "o", "d", "-", "*">>))
A_NS == Entry(K_NAMESPACE, S(<<"n", "s">>))
A_SA == Entry(K_SERVICEACCOUNT, S(<<"s", "?">>))
A_ACTOR == Entry(K_ACTOR, S(<<"*">>))
A_REPO == Entry(K_REPO, S(<<"o", "/", "*">>))
A_REPO_OTHER == Entry(K_REPO, S(<<"x", "/", "*">>))
E_FOO == Entry(FOO, S(BAR))
E_N == Entry(<<"n">>, NumV(<<"7">>))
E_CD == Entry(C_DOT_D, S(<<"v">>))
E_META == Entry(<<"m", "e", "t", "a", "d", "a", "t", "a">>,
                ObjV(<<Entry(<<"v">>, NumV(<<"1">>))>>))

\* {data: {data: {..., foo, ..., n, ..., c.d, ...}, metadata: {v: 1}}}
DocNested ==
    ObjV(<<Entry(DATA, ObjV(<<
        Entry(DATA, ObjV(<<A_POD, E_FOO, A_NS, A_SA, E_N, A_ACTOR, E_CD, A_REPO>>)),
        E_META>>))>>)

\* {data: {data: {the five attributes only}}}
DocNoKeys ==
    ObjV(<<Entry(DATA, ObjV(<<
        Entry(DATA, ObjV(<<A_POD, A_NS, A_SA, A_ACTOR, A_REPO>>))>>))>>)

\* as DocNested, for another repository
DocDenied ==
    ObjV(<<Entry(DATA, ObjV(<<
        Entry(DATA, ObjV(<<A_POD, E_FOO, A_NS, A_SA, A_ACTOR, A_REPO_OTHER>>))>>))>>)

\* the flatter shape {data: {the five attributes, foo}}
DocFlat ==
    ObjV(<<Entry(DATA, ObjV(<<A_POD, A_NS, A_SA, A_ACTOR, A_REPO, E_FOO>>))>>)

Documents == <<DocNested, DocNoKeys, DocDenied, DocFlat>>

\* the wire texts: one per document, and one that is no JSON
RawBodies == 1..(Len(Documents) + 1)
NoBody == 0

SyntaxError == Err("SyntaxError", <<>>)

JSONParse(raw) ==
    IF raw \in 1..Len(Documents) THEN Ret(Documents[raw]) ELSE Throw(SyntaxError)

---------------------------------------------------------------------------
(* The requests of a batch.                                                *)

Request(path, selector, out, ev) ==
    [path |-> path, selector |-> selector, outputVarName |-> out, envVarName |-> ev]

P1 == <<"s", "1">>
P2 == <<"s", "2">>
PRE == <<"p", "-">>
ZZ == <<"z", "z">>

Requests ==
    { Request(P1, WILDCARD, WILDCARD, WILDCARD),
      Request(P1, WILDCARD_UPPERCASE, PRE, PRE),
      Request(P2, WILDCARD, WILDCARD, WILDCARD),
      Request(P1, FOO, FOO, ToUpperCase(FOO)),
      Request(P2, FOO, FOO, ToUpperCase(FOO)),
      Request(P1, <<"n">>, <<"n">>, <<"N">>) }

Batches == UNION { [1..n -> Requests] : n \in 0..MaxRequests }

\* the text 'false' of line 50
FALSE_TEXT == <<"f", "a", "l", "s", "e">>

\* what core.getInput('ignoreNotFound') may return: nothing when the input is
\* not set, else the text given
IgnoreInputs == { <<>>, <<"F", "a", "l", "s", "e">>, <<"t", "r", "u", "e">> }

\* the errors of the transport other than 404: a response with another status,
\* and an error that carries no response
TransportErrors == { Err("HTTPError", <<"5", "0", "0">>), Err("RequestError", <<>>) }

NotFound(path) == Err("NotFound", path)

---------------------------------------------------------------------------
(* getSecrets (lines 27-123).                                              *)

V1 == <<"v", "1", "/">>
RequestPath(secretRequest) == V1 \o secretRequest.path

\* mutant: the policy is read the other way round
IgnoreNotFoundInverted(input) ==
    ToLowerCase(IF input = <<>> THEN FALSE_TEXT ELSE input) = FALSE_TEXT

\* line 50
IgnoreNotFound(input) ==
    ToLowerCase(IF input = <<>> THEN FALSE_TEXT ELSE input) # FALSE_TEXT

NoValue == [set |-> FALSE, list |-> <<>>]
Value(list) == [set |-> TRUE, list |-> list]

Outcome(kind, res, upper, err, gate) ==
    [kind |-> kind, results |-> res, upperCaseEnv |-> upper, err |-> err, gate |-> gate]

IsWildcard(selector) == selector = WILDCARD \/ selector = WILDCARD_UPPERCASE

\* lines 69-72
Keys(parsed) ==
    IF Get(Get(parsed, DATA), DATA) # Undefined
    THEN Get(Get(parsed, DATA), DATA)
    ELSE Get(parsed, DATA)

\* what the iteration ends with, next being what the selection returned or threw
Selection(next, res, upper) ==
    IF next.threw THEN Outcome("throw", res, upper, next.err, "allow")
    ELSE Outcome("continue", next.val, upper, NoError, "allow")

\* mutant: the upper-case setting of an earlier request stays on
DispatchSticky(secretRequest, parsed, cached, res, upper) ==
    IF IsWildcard(secretRequest.selector)
    THEN Selection(ExpandKeys(Keys(parsed), secretRequest, parsed, cached,
                              upper \/ secretRequest.selector = WILDCARD_UPPERCASE, res),
                   res, upper \/ secretRequest.selector = WILDCARD_UPPERCASE)
    ELSE Selection(selectAndAppendResults(secretRequest.selector, parsed, cached,
                                          secretRequest, res),
                   res, upper)

\* lines 67-119: the payload is parsed and allowed
Dispatch(secretRequest, parsed, cached, res, upper) ==
    IF IsWildcard(secretRequest.selector)
    THEN Selection(ExpandKeys(Keys(parsed), secretRequest, parsed, cached,
                              secretRequest.selector = WILDCARD_UPPERCASE, res),
                   res, secretRequest.selector = WILDCARD_UPPERCASE)
    ELSE Selection(selectAndAppendResults(secretRequest.selector, parsed, cached,
                                          secretRequest, res),
                   res, upper)

\* mutant: a denied secret is skipped and the batch goes on
GateSkipsDenied(allowed, secretRequest, parsed, cached, res, upper) ==
    IF allowed.threw THEN Outcome("throw", res, upper, allowed.err, "threw")
    ELSE IF ~allowed.val THEN Outcome("continue", res, upper, NoError, "deny")
    ELSE Dispatch(secretRequest, parsed, cached, res, upper)

\* lines 63-119, allowed being what isAllowed returned or threw
Gate(allowed, secretRequest, parsed, cached, res, upper) ==
    IF allowed.threw THEN Outcome("throw", res, upper, allowed.err, "threw")
    ELSE IF ~allowed.val THEN Outcome("return", res, upper, NoError, "deny")
    ELSE Dispatch(secretRequest, parsed, cached, res, upper)

\* mutant: a body that came from the cache is not checked again
ParsedTrustsCache(doc, secretRequest, cached, res, upper, e) ==
    IF doc.threw THEN Outcome("throw", res, upper, doc.err, "none")
    ELSE IF Get(doc.val, DATA).t = "undefined"
    THEN Outcome("throw", res, upper, TypeError, "none")
    ELSE IF cached
    THEN [Dispatch(secretRequest, doc.val, cached, res, upper) EXCEPT !.gate = "none"]
    ELSE Gate(isAllowed(Get(Get(doc.val, DATA), DATA), e),
              secretRequest, doc.val, cached, res, upper)

\* lines 62-119, doc being what JSON.parse returned or threw
Parsed(doc, secretRequest, cached, res, upper, e) ==
    IF doc.threw THEN Outcome("throw", res, upper, doc.err, "none")
    ELSE IF Get(doc.val, DATA).t = "undefined"
    THEN Outcome("throw", res, upper, TypeError, "none")
    ELSE Gate(isAllowed(Get(Get(doc.val, DATA), DATA), e),
              secretRequest, doc.val, cached, res, upper)

\* lines 62-119 for one request: what the iteration ends with
Resolution(secretRequest, raw, cached, res, upper, e) ==
    Parsed(JSONParse(raw), secretRequest, cached, res, upper, e)

---------------------------------------------------------------------------
(* The request objects.  A request is an object, and a result holds a      *)
(* reference to one (line 266).  heap is the objects by reference and refs *)
(* the reference each result holds; results holds the objects' fields.     *)

Store(h, r, threw) == [heap |-> h, refs |-> r, threw |-> threw]
Object(h, ref) == [heap |-> h, ref |-> ref]

\* mutant: newRequest is the request itself and no copy of it
AssignAlias(h, ref) == Object(h, ref)

\* line 79: Object.assign({}, secretRequest) is a new object with the fields
\* of the request
Assign(h, ref) == Object(Append(h, h[ref]), Len(h) + 1)

\* lines 80-91, line by line: new is the object newRequest refers to and ref
\* the one secretRequest refers to
Derive(new, ref, key, upper) ==
    LET h1 == [new.heap EXCEPT ![new.ref].selector = key]
        byKey == h1[ref].selector = h1[ref].outputVarName
        h2 == [h1 EXCEPT ![new.ref].outputVarName =
                  IF byKey THEN key ELSE h1[ref].outputVarName \o key]
        h3 == [h2 EXCEPT ![new.ref].envVarName =
                  IF byKey THEN key ELSE h2[ref].envVarName \o key]
        h4 == [h3 EXCEPT ![new.ref].outputVarName =
                  normalizeOutputKey(h3[new.ref].outputVarName, FALSE)]
    IN  Object([h4 EXCEPT ![new.ref].envVarName =
                   normalizeOutputKey(h4[new.ref].envVarName, upper)],
               new.ref)

\* lines 262-270: the result refers to the object handed in, unless selectData threw
Referred(obj, threw, r) ==
    Store(obj.heap, IF threw THEN r ELSE Append(r, obj.ref), threw)

\* one turn of the for-in loop of line 74 on the objects
ExpandObject(prev, key, ref, parsed, upper) ==
    IF prev.threw \/ IsReserved(key) THEN prev
    ELSE Referred(Derive(Assign(prev.heap, ref), ref, key, upper),
                  selectData(parsed, FullSelector(KeySelector(key), parsed)).threw,
                  prev.refs)

\* the turns of the for-in loop on the objects for the entries left
RECURSIVE ExpandObjectsFrom(_, _, _)
ExpandObjectsFrom(entries, prev, loop) ==
    IF entries = <<>> THEN prev
    ELSE ExpandObjectsFrom(Tail(entries),
                           ExpandObject(prev, Head(entries).k, loop.ref, loop.parsed,
                                        loop.upper),
                           loop)

\* the for-in loop of lines 74-109 on the objects
ExpandObjects(keys, ref, parsed, upper, store) ==
    ExpandObjectsFrom(keys.e, store, [ref |-> ref, parsed |-> parsed, upper |-> upper])

\* lines 67-119 on the objects, the payload being parsed and allowed
Objects(ref, parsed, store) ==
    IF IsWildcard(store.heap[ref].selector)
    THEN ExpandObjects(Keys(parsed), ref, parsed,
                       store.heap[ref].selector = WILDCARD_UPPERCASE, store)
    ELSE Referred(Object(store.heap, ref),
                  selectData(parsed, FullSelector(store.heap[ref].selector, parsed)).threw,
                  store.refs)

---------------------------------------------------------------------------
(* The invocation.                                                         *)

\* one entry of the history of the requests reached
Reached(path, how, raw, err) ==
    [path |-> path, how |-> how, raw |-> raw, err |-> err, gate |-> "none"]

\* no direct call is made, and none has answered
NoCall == [fn |-> "none", data |-> Undefined, selector |-> <<>>]
NoReply == [done |-> FALSE, out |-> Ret(<<>>)]
Reply(out) == [done |-> TRUE, out |-> out]

Init ==
    /\ secretRequests \in Batches
    /\ env = JobEnv
    /\ ignoreInput \in IgnoreInputs
    /\ pc = "loop"
    /\ idx = 1
    /\ responseCache = <<>>
    /\ results = <<>>
    /\ upperCaseEnv = FALSE
    /\ body = NoBody
    /\ cachedResponse = FALSE
    /\ returned = NoValue
    /\ error = NoError
    /\ gets = <<>>
    /\ trail = <<>>
    /\ call = NoCall
    /\ reply = NoReply
    /\ heap = secretRequests
    /\ refs = <<>>

\* mutant: the flag is left as line 37 set it
CacheHitUnflagged ==
    /\ pc = "loop"
    /\ idx <= Len(secretRequests)
    /\ LET requestPath == RequestPath(secretRequests[idx]) IN
        /\ requestPath \in DOMAIN responseCache
        /\ body' = responseCache[requestPath]
        /\ cachedResponse' = FALSE
        /\ trail' = Append(trail, Reached(requestPath, "cached", responseCache[requestPath], NoError))
    /\ pc' = "resolve"
    /\ UNCHANGED << secretRequests, env, ignoreInput, idx, responseCache, results,
                    upperCaseEnv, returned, error, gets, call, reply,
                    heap, refs >>

\* lines 38-40: the body is in the cache
CacheHit ==
    /\ pc = "loop"
    /\ idx <= Len(secretRequests)
    /\ LET requestPath == RequestPath(secretRequests[idx]) IN
        /\ requestPath \in DOMAIN responseCache
        /\ body' = responseCache[requestPath]
        /\ cachedResponse' = TRUE
        /\ trail' = Append(trail, Reached(requestPath, "cached", responseCache[requestPath], NoError))
    /\ pc' = "resolve"
    /\ UNCHANGED << secretRequests, env, ignoreInput, idx, responseCache, results,
                    upperCaseEnv, returned, error, gets, call, reply,
                    heap, refs >>

\* mutant: client.get is called and the loop goes on without awaiting it
ClientGetNoAwait ==
    /\ pc = "loop"
    /\ idx <= Len(secretRequests)
    /\ LET requestPath == RequestPath(secretRequests[idx]) IN
        /\ requestPath \notin DOMAIN responseCache
        /\ gets' = Append(gets, requestPath)
    /\ body' = NoBody
    /\ cachedResponse' = FALSE
    /\ pc' = "loop"
    /\ idx' = idx + 1
    /\ UNCHANGED << secretRequests, env, ignoreInput, responseCache, results,
                    upperCaseEnv, returned, error, trail, call, reply,
                    heap, refs >>

\* line 43: client.get is called and awaited
ClientGet ==
    /\ pc = "loop"
    /\ idx <= Len(secretRequests)
    /\ LET requestPath == RequestPath(secretRequests[idx]) IN
        /\ requestPath \notin DOMAIN responseCache
        /\ gets' = Append(gets, requestPath)
    /\ body' = NoBody
    /\ cachedResponse' = FALSE
    /\ pc' = "await"
    /\ UNCHANGED << secretRequests, env, ignoreInput, idx, responseCache, results,
                    upperCaseEnv, returned, error, trail, call, reply,
                    heap, refs >>

\* mutant: the body is not put in the cache
TransportBodyUncached(raw) ==
    /\ pc = "await"
    /\ trail' = Append(trail, Reached(RequestPath(secretRequests[idx]), "fetched", raw, NoError))
    /\ body' = raw
    /\ pc' = "resolve"
    /\ UNCHANGED << secretRequests, env, ignoreInput, idx, responseCache, results,
                    upperCaseEnv, cachedResponse, returned, error, gets, call, reply,
                    heap, refs >>

\* lines 44-45: the transport answers with a body
TransportBody(raw) ==
    /\ pc = "await"
    /\ LET requestPath == RequestPath(secretRequests[idx]) IN
        /\ responseCache' =
              [p \in DOMAIN responseCache \cup {requestPath} |->
                  IF p = requestPath THEN raw ELSE responseCache[p]]
        /\ trail' = Append(trail, Reached(requestPath, "fetched", raw, NoError))
    /\ body' = raw
    /\ pc' = "resolve"
    /\ UNCHANGED << secretRequests, env, ignoreInput, idx, results, upperCaseEnv,
                    cachedResponse, returned, error, gets, call, reply,
                    heap, refs >>

\* mutant: the body of the 404 response is put in the cache
TransportNotFoundCached ==
    /\ pc = "await"
    /\ trail' = Append(trail, Reached(RequestPath(secretRequests[idx]), "notfound", NoBody,
                                   NotFound(secretRequests[idx].path)))
    /\ responseCache' =
          [p \in DOMAIN responseCache \cup {RequestPath(secretRequests[idx])} |->
              IF p = RequestPath(secretRequests[idx]) THEN NoBody ELSE responseCache[p]]
    /\ IF IgnoreNotFound(ignoreInput)
       THEN /\ idx' = idx + 1
            /\ pc' = "loop"
            /\ error' = error
       ELSE /\ idx' = idx
            /\ pc' = "threw"
            /\ error' = NotFound(secretRequests[idx].path)
    /\ UNCHANGED << secretRequests, env, ignoreInput, results,
                    upperCaseEnv, body, cachedResponse, returned, gets, call, reply,
                    heap, refs >>

\* lines 48-56: the transport answers 404
TransportNotFound ==
    /\ pc = "await"
    /\ trail' = Append(trail, Reached(RequestPath(secretRequests[idx]), "notfound", NoBody,
                                   NotFound(secretRequests[idx].path)))
    /\ IF IgnoreNotFound(ignoreInput)
       THEN /\ idx' = idx + 1
            /\ pc' = "loop"
            /\ error' = error
       ELSE /\ idx' = idx
            /\ pc' = "threw"
            /\ error' = NotFound(secretRequests[idx].path)
    /\ UNCHANGED << secretRequests, env, ignoreInput, responseCache, results,
                    upperCaseEnv, body, cachedResponse, returned, gets, call, reply,
                    heap, refs >>

\* mutant: the status is not looked at, and any error is taken for a 404
TransportFailsAsNotFound(err) ==
    /\ pc = "await"
    /\ trail' = Append(trail, Reached(RequestPath(secretRequests[idx]), "failed", NoBody, err))
    /\ IF IgnoreNotFound(ignoreInput)
       THEN /\ idx' = idx + 1
            /\ pc' = "loop"
            /\ error' = error
       ELSE /\ idx' = idx
            /\ pc' = "threw"
            /\ error' = NotFound(secretRequests[idx].path)
    /\ UNCHANGED << secretRequests, env, ignoreInput, responseCache, results,
                    upperCaseEnv, body, cachedResponse, returned, gets, call, reply,
                    heap, refs >>

\* line 58: the transport fails with another error
TransportFails(err) ==
    /\ pc = "await"
    /\ trail' = Append(trail, Reached(RequestPath(secretRequests[idx]), "failed", NoBody, err))
    /\ pc' = "threw"
    /\ error' = err
    /\ UNCHANGED << secretRequests, env, ignoreInput, idx, responseCache, results,
                    upperCaseEnv, body, cachedResponse, returned, gets, call, reply,
                    heap, refs >>

\* the objects after the iteration
Kept(store) == heap' = store.heap /\ refs' = store.refs

\* mutant: an error of the iteration is kept but the loop goes on
ResolvedSwallows(out) ==
    /\ trail' = [trail EXCEPT ![Len(trail)].gate = out.gate]
    /\ Kept(IF out.gate = "allow"
            THEN Objects(idx, JSONParse(body).val, Store(heap, refs, FALSE))
            ELSE Store(heap, refs, FALSE))
    /\ upperCaseEnv' = out.upperCaseEnv
    /\ results' = out.results
    /\ IF out.kind = "throw"
       THEN pc' = "loop" /\ error' = out.err /\ returned' = returned /\ idx' = idx + 1
       ELSE IF out.kind = "return"
       THEN pc' = "done" /\ returned' = Value(<<>>) /\ error' = error /\ idx' = idx
       ELSE pc' = "loop" /\ idx' = idx + 1 /\ error' = error /\ returned' = returned

\* the state after the iteration ended with out
Resolved(out) ==
    /\ trail' = [trail EXCEPT ![Len(trail)].gate = out.gate]
    /\ Kept(IF out.gate = "allow"
            THEN Objects(idx, JSONParse(body).val, Store(heap, refs, FALSE))
            ELSE Store(heap, refs, FALSE))
    /\ upperCaseEnv' = out.upperCaseEnv
    /\ results' = out.results
    /\ IF out.kind = "throw"
       THEN pc' = "threw" /\ error' = out.err /\ returned' = returned /\ idx' = idx
       ELSE IF out.kind = "return"
       THEN pc' = "done" /\ returned' = Value(<<>>) /\ error' = error /\ idx' = idx
       ELSE pc' = "loop" /\ idx' = idx + 1 /\ error' = error /\ returned' = returned

\* lines 62-119: the rest of the iteration
Resolve ==
    /\ pc = "resolve"
    /\ Resolved(Resolution(heap[idx], body, cachedResponse, results,
                           upperCaseEnv, env))
    /\ UNCHANGED << secretRequests, env, ignoreInput, responseCache, body,
                    cachedResponse, gets, call, reply >>

\* line 122
Return ==
    /\ pc = "loop"
    /\ idx > Len(secretRequests)
    /\ pc' = "done"
    /\ returned' = Value(results)
    /\ UNCHANGED << secretRequests, env, ignoreInput, idx, responseCache, results,
                    upperCaseEnv, body, cachedResponse, error, gets, trail, call, reply,
                    heap, refs >>

Next ==
    \/ CacheHit
    \/ ClientGet
    \/ \E raw \in RawBodies : TransportBody(raw)
    \/ TransportNotFound
    \/ \E err \in TransportErrors : TransportFails(err)
    \/ Resolve
    \/ Return

Spec == Init /\ [][Next]_vars

\* the steps of getSecrets at the head of the loop, and the answers of the
\* transport
Loop == CacheHit \/ ClientGet \/ Return
Transport ==
    \/ \E raw \in RawBodies : TransportBody(raw)
    \/ TransportNotFound
    \/ \E err \in TransportErrors : TransportFails(err)

\* weak fairness of Resolve, written out: Resolve has no guard but
\* pc = "resolve" and every step of it changes pc, so that is when it is
\* enabled
ResolveRuns == []<>(pc # "resolve") \/ []<><<Resolve>>_vars

\* getSecrets is synchronous code but for its await, so it runs on whenever
\* it can, and the transport answers every get
SpecLive == Spec /\ WF_vars(Loop) /\ ResolveRuns /\ WF_vars(Transport)

---------------------------------------------------------------------------
(* isAllowed on its own: one call on a payload data object built from a    *)
(* choice, for each of the five attributes, of no entry or of one pattern. *)

\* another run's process.env
OtherEnv ==
    [JOB_POD_NAME |-> <<"w", "e", "b", "-", "1">>,
     JOB_POD_NAMESPACE |-> <<"n", "s">>,
     JOB_POD_SERVICEACCOUNT |-> <<"s", "a">>,
     GITHUB_ACTOR |-> <<"b", "o", "b">>,
     GITHUB_REPOSITORY |-> <<"o", "/", "r">>]

Absent == <<"(absent)">>

PodPatterns == { Absent, <<"p", "o", "d", "-", "*">>, <<"p", "o", "d", "-", "1">>, <<"w", "e", "b", "-", "?">> }
NamespacePatterns == { Absent, <<"n", "s">>, <<"n", "?", "?">> }
ServiceAccountPatterns == { Absent, <<"s", "?">>, <<"*", "b">> }
ActorPatterns == { Absent, <<"*">>, <<"a", "m", "y">> }
RepoPatterns == { Absent, <<"o", "/", "*">>, <<"*">> }

Attribute(key, pattern) ==
    IF pattern = Absent THEN <<>> ELSE <<Entry(key, S(pattern))>>

\* the secret's value comes first, then the attributes that are present
PayloadData(pod, ns, sa, actor, repo) ==
    ObjV(<<E_FOO>> \o Attribute(K_REPO, repo) \o Attribute(K_ACTOR, actor)
         \o Attribute(K_SERVICEACCOUNT, sa) \o Attribute(K_NAMESPACE, ns)
         \o Attribute(K_PODNAME, pod))

GateInputs ==
    { PayloadData(pod, ns, sa, actor, repo) :
        pod \in PodPatterns, ns \in NamespacePatterns, sa \in ServiceAccountPatterns,
        actor \in ActorPatterns, repo \in RepoPatterns }
    \cup { Undefined, S(BAR) }

\* no getSecrets invocation is under way
Idle ==
    /\ secretRequests = <<>>
    /\ ignoreInput = <<>>
    /\ pc = "idle"
    /\ idx = 1
    /\ responseCache = <<>>
    /\ results = <<>>
    /\ upperCaseEnv = FALSE
    /\ body = NoBody
    /\ cachedResponse = FALSE
    /\ returned = NoValue
    /\ error = NoError
    /\ gets = <<>>
    /\ trail = <<>>
    /\ heap = <<>>
    /\ refs = <<>>

InitGate ==
    /\ Idle
    /\ env \in {JobEnv, OtherEnv}
    /\ call \in { [fn |-> "isAllowed", data |-> d, selector |-> <<>>] : d \in GateInputs }
    /\ reply = NoReply

CallIsAllowed ==
    /\ call.fn = "isAllowed"
    /\ ~reply.done
    /\ reply' = Reply(isAllowed(call.data, env))
    /\ UNCHANGED << secretRequests, env, ignoreInput, pc, idx, responseCache, results,
                    upperCaseEnv, body, cachedResponse, returned, error, gets, trail,
                    call,
                    heap, refs >>

NextGate == CallIsAllowed

SpecGate == InitGate /\ [][NextGate]_vars

---------------------------------------------------------------------------
(* selectData on its own: one call on a document and a selector.           *)

\* {foo: "bar", n: 7}: a document with no data field
DocBare == ObjV(<<E_FOO, E_N>>)

\* {data: {foo: "bar", n: 7, c.d: "v"}}: the flatter shape, values only
DocFlatValues == ObjV(<<Entry(DATA, ObjV(<<E_FOO, E_N, E_CD>>))>>)

\* {data: {data: {foo: "bar"}}} and the flatter {data: {foo: "bar"}}
DocFooNested == ObjV(<<Entry(DATA, ObjV(<<Entry(DATA, ObjV(<<E_FOO>>))>>))>>)
DocFooFlat == ObjV(<<Entry(DATA, ObjV(<<E_FOO>>))>>)

SelectDocuments ==
    { DocNested, DocNoKeys, DocFlat, DocFlatValues, DocBare, DocFooNested, DocFooFlat }

Dotted(a, b) == a \o <<".">> \o b
InDQ(a) == <<DQ>> \o a \o <<DQ>>
InBT(a) == <<BT>> \o a \o <<BT>>

Selectors ==
    { FOO, InDQ(FOO), InBT(C_DOT_D), <<"n">>, ZZ, DATA,
      Dotted(DATA, FOO), Dotted(DATA, InDQ(FOO)), Dotted(DATA, ZZ), Dotted(DATA, DATA),
      Dotted(DATA, Dotted(DATA, FOO)), Dotted(DATA, Dotted(DATA, InDQ(FOO))),
      Dotted(DATA, Dotted(DATA, <<"n">>)), Dotted(DATA, Dotted(DATA, InBT(C_DOT_D))),
      Dotted(DATA, Dotted(DATA, ZZ)), Dotted(DATA, InBT(C_DOT_D)),
      Dotted(DATA, <<"m", "e", "t", "a", "d", "a", "t", "a">>),
      <<"f", ".">> }

InitSelect ==
    /\ Idle
    /\ env = JobEnv
    /\ call \in { [fn |-> "selectData", data |-> d, selector |-> sel] :
                    d \in SelectDocuments, sel \in Selectors }
    /\ reply = NoReply

CallSelectData ==
    /\ call.fn = "selectData"
    /\ ~reply.done
    /\ reply' = Reply(selectData(call.data, call.selector))
    /\ UNCHANGED << secretRequests, env, ignoreInput, pc, idx, responseCache, results,
                    upperCaseEnv, body, cachedResponse, returned, error, gets, trail,
                    call,
                    heap, refs >>

NextSelect == CallSelectData

SpecSelect == InitSelect /\ [][NextSelect]_vars

---------------------------------------------------------------------------
(* getSecrets as a function of its arguments, of process.env, of the       *)
(* ignoreNotFound input and of the answers the transport gives to the gets *)
(* in the order they are issued.                                           *)

\* what the transport answers to a get
Body(raw) == [kind |-> "body", raw |-> raw, err |-> NoError]
Status404 == [kind |-> "notfound", raw |-> NoBody, err |-> NoError]
Failure(err) == [kind |-> "failed", raw |-> NoBody, err |-> err]

\* mutant: the policy is the argument of getSecrets
PolicyOfArgument(ignoreNotFound, input) == ignoreNotFound

\* line 50: the const declared in the catch block hides the parameter
\* ignoreNotFound of line 27, which nothing else reads
Policy(ignoreNotFound, input) == IgnoreNotFound(input)

\* the locals of getSecrets, and the answers not yet given
Locals(cache, res, upper, answers) ==
    [responseCache |-> cache, results |-> res, upperCaseEnv |-> upper, answers |-> answers]

\* lines 32-122 from the request of index i on; in holds the arguments
RECURSIVE Iterate(_, _, _)
RECURSIVE Fetched(_, _, _, _, _)

\* lines 62-120: the iteration ended with out
Proceed(out, st, i, in) ==
    IF out.kind = "throw" THEN Throw(out.err)
    ELSE IF out.kind = "return" THEN Ret(<<>>)
    ELSE Iterate(Locals(st.responseCache, out.results, out.upperCaseEnv, st.answers),
                 i + 1, in)

\* lines 43-59: the get for requestPath is answered by answer
Fetched(answer, requestPath, st, i, in) ==
    IF answer.kind = "body"
    THEN Proceed(Resolution(in.secretRequests[i], answer.raw, FALSE, st.results,
                            st.upperCaseEnv, in.env),
                 Locals([p \in DOMAIN st.responseCache \cup {requestPath} |->
                            IF p = requestPath THEN answer.raw ELSE st.responseCache[p]],
                        st.results, st.upperCaseEnv, Tail(st.answers)),
                 i, in)
    ELSE IF answer.kind = "notfound"
    THEN IF Policy(in.ignoreNotFound, in.input)
         THEN Iterate(Locals(st.responseCache, st.results, st.upperCaseEnv,
                             Tail(st.answers)),
                      i + 1, in)
         ELSE Throw(NotFound(in.secretRequests[i].path))
    ELSE Throw(answer.err)

\* lines 38-60 for requestPath
Obtained(requestPath, st, i, in) ==
    IF requestPath \in DOMAIN st.responseCache
    THEN Proceed(Resolution(in.secretRequests[i], st.responseCache[requestPath], TRUE,
                            st.results, st.upperCaseEnv, in.env),
                 st, i, in)
    ELSE Fetched(Head(st.answers), requestPath, st, i, in)

Iterate(st, i, in) ==
    IF i > Len(in.secretRequests) THEN Ret(st.results)
    ELSE Obtained(RequestPath(in.secretRequests[i]), st, i, in)

\* getSecrets(secretRequests, client, ignoreNotFound), client giving answers
getSecrets(requests, answers, ignoreNotFound, input, e) ==
    Iterate(Locals(<<>>, <<>>, FALSE, answers), 1,
            [secretRequests |-> requests, ignoreNotFound |-> ignoreNotFound,
             input |-> input, env |-> e])

\* the invocations: batches of three of the requests, the answers to as many
\* gets as a batch can issue, and the argument given or left out
ArgRequests ==
    { Request(P1, WILDCARD, WILDCARD, WILDCARD),
      Request(P1, FOO, FOO, ToUpperCase(FOO)),
      Request(P2, FOO, FOO, ToUpperCase(FOO)) }
ArgBatches == UNION { [1..n -> ArgRequests] : n \in 1..MaxRequests }
Answers ==
    { Body(1), Body(3), Status404, Failure(Err("HTTPError", <<"5", "0", "0">>)) }
Scripts == [1..MaxRequests -> Answers]
Arguments == { TRUE, FALSE }
ArgInputs == { <<>>, <<"t", "r", "u", "e">> }

InitArg ==
    /\ secretRequests \in ArgBatches
    /\ env = JobEnv
    /\ ignoreInput \in ArgInputs
    /\ pc = "idle"
    /\ idx = 1
    /\ responseCache = <<>>
    /\ results = <<>>
    /\ upperCaseEnv = FALSE
    /\ body = NoBody
    /\ cachedResponse = FALSE
    /\ returned = NoValue
    /\ error = NoError
    /\ gets = <<>>
    /\ trail = <<>>
    /\ heap = <<>>
    /\ refs = <<>>
    /\ call \in { [fn |-> "getSecrets", answers |-> a, ignoreNotFound |-> arg] :
                    a \in Scripts, arg \in Arguments }
    /\ reply = NoReply

CallGetSecrets ==
    /\ call.fn = "getSecrets"
    /\ ~reply.done
    /\ reply' = Reply(getSecrets(secretRequests, call.answers, call.ignoreNotFound,
                                 ignoreInput, env))
    /\ UNCHANGED << secretRequests, env, ignoreInput, pc, idx, responseCache, results,
                    upperCaseEnv, body, cachedResponse, returned, error, gets, trail,
                    call, heap, refs >>

NextArg == CallGetSecrets

SpecArg == InitArg /\ [][NextArg]_vars

---------------------------------------------------------------------------
(* The properties.                                                         *)

Last(seq) == seq[Len(seq)]

\* in the history tr, the request of index i has been reached and the gate
\* allowed its payload
AllowedIn(tr, i) == i <= Len(tr) /\ tr[i].gate = "allow"
Allowed(i) == AllowedIn(trail, i)

\* the innermost data object of the payload the request of index i obtained
InnerDataIn(tr, i) == Get(Get(JSONParse(tr[i].raw).val, DATA), DATA)
InnerData(i) == InnerDataIn(trail, i)

\* the first n characters of key are those of prefix
Begins(key, prefix, n) == Len(key) >= n /\ \A i \in 1..n : key[i] = prefix[i]

\* a key that is no authorization attribute
Eligible(key) ==
    /\ ~Begins(key, <<"x", "-", "k", "8", "s", "-">>, 6)
    /\ ~Begins(key, <<"x", "-", "g", "i", "t", "h", "u", "b", "-">>, 9)

\* the eligible keys of an object, in its iteration order
EligibleKeys(obj) ==
    LET at == SelectSeq([i \in 1..Len(obj.e) |-> i], LAMBDA i : Eligible(obj.e[i].k))
    IN  [j \in 1..Len(at) |-> obj.e[at[j]].k]

\* the value a result holds for the field key of obj: a string as it is,
\* anything else as its JSON text
ValueOf(obj, key) ==
    IF Get(obj, key).t = "string" THEN Get(obj, key).s ELSE JSONStringify(Get(obj, key)).s

\* what the request of index i is to contribute: one [i, key] per result
Contribution(tr, i) ==
    IF ~AllowedIn(tr, i) THEN <<>>
    ELSE IF secretRequests[i].selector \in {WILDCARD, WILDCARD_UPPERCASE}
    THEN LET keys == EligibleKeys(InnerDataIn(tr, i))
         IN  [j \in 1..Len(keys) |-> [i |-> i, key |-> keys[j]]]
    ELSE <<[i |-> i, key |-> secretRequests[i].selector]>>

RECURSIVE Contributions(_, _)
Contributions(tr, n) ==
    IF n = 0 THEN <<>> ELSE Contributions(tr, n - 1) \o Contribution(tr, n)

\* the policy the configuration flag states
PolicyEnabled == ignoreInput = <<"t", "r", "u", "e">>

\* the step is the transport's answer of kind how to the outstanding get
Answered(how) ==
    /\ pc = "await"
    /\ Len(trail') = Len(trail) + 1
    /\ Last(trail').how = how

\* the step resolves the request the loop is at, the gate allowing its payload
ResolvesAllowed ==
    /\ pc = "resolve"
    /\ Last(trail').gate = "allow"

\* C1: once the Authorization Gate has denied the payload of a request that
\* getSecrets reached, getSecrets has returned the empty list: no error, and
\* none of the results the earlier requests appended.
C1_DenialReturnsEmptyList ==
    (\E i \in 1..Len(trail) : trail[i].gate = "deny")
        => pc = "done" /\ returned = Value(<<>>) /\ error = NoError

\* a denial after earlier requests of the batch appended results
C1_Witness ==
    /\ Len(trail) > 1
    /\ Last(trail).gate = "deny"
    /\ Len(results) > 0
    /\ returned = Value(<<>>)

GetsFor(requestPath) == Cardinality({i \in 1..Len(gets) : gets[i] = requestPath})

\* C2 as claimed: a path that more than one request reached has had exactly
\* one transport get, and every resolution of it after the first found the
\* body in the cache, whatever the transport answered.
C2_OneGetPerRepeatedPath ==
    \A i, j \in 1..Len(trail) :
        (i < j /\ trail[i].path = trail[j].path)
            => GetsFor(trail[i].path) = 1 /\ trail[j].how = "cached"

\* C2 as amended: once a get for a path has returned a body, no further get
\* is issued for that path and every later resolution of it is served from
\* the cache (cachedResponse = true); a get beyond the first is issued for a
\* path only after a 404 that the ignore-not-found policy skipped.
C2_OneSuccessfulGetPerPath ==
    /\ \A i, j \in 1..Len(trail) :
          (i < j /\ trail[i].path = trail[j].path /\ trail[i].how \in {"fetched", "cached"})
              => trail[j].how = "cached"
    /\ \A i \in 1..Len(trail) :
          /\ Cardinality({j \in 1..Len(trail) :
                 trail[j].path = trail[i].path /\ trail[j].how = "fetched"}) <= 1
          /\ GetsFor(trail[i].path) <=
                 1 + Cardinality({j \in 1..Len(trail) :
                         trail[j].path = trail[i].path /\ trail[j].how = "notfound"})
    /\ pc = "resolve" => cachedResponse = (Last(trail).how = "cached")

\* a path asked for three times: a skipped 404, a fetch, a cache hit
C2_Witness ==
    /\ Len(trail) = 3
    /\ trail[1].path = trail[2].path /\ trail[2].path = trail[3].path
    /\ trail[1].how = "notfound" /\ trail[2].how = "fetched" /\ trail[3].how = "cached"
    /\ pc = "resolve" /\ cachedResponse

\* C3: a non-empty returned list holds the contributions of the requests in
\* the order of the requests, those of a wildcard request together, at its
\* place, in the iteration order of the payload's keys.
C3_ResultOrder ==
    (pc = "done" /\ returned.list # <<>>)
        => LET expected == Contributions(trail, Len(secretRequests)) IN
           /\ Len(returned.list) = Len(expected)
           /\ \A j \in 1..Len(expected) :
                 /\ returned.list[j].request.path = secretRequests[expected[j].i].path
                 /\ returned.list[j].request.selector = expected[j].key
                 /\ returned.list[j].value = ValueOf(InnerData(expected[j].i), expected[j].key)

\* a returned list with a wildcard request's results before and after those
\* of other requests
C3_Witness ==
    /\ pc = "done"
    /\ Len(secretRequests) = 3
    /\ secretRequests[1].selector = <<"n">>
    /\ secretRequests[2].selector = WILDCARD
    /\ secretRequests[3].selector = FOO
    /\ Len(returned.list) = 5

\* C4: when the transport answers 404, with the policy disabled getSecrets
\* fails with an error that names the request's path and returns nothing;
\* with the policy enabled nothing is appended, the results so far are kept
\* and the loop goes on to the next request.
C4_NotFound ==
    [][Answered("notfound") =>
          IF PolicyEnabled
          THEN /\ pc' = "loop" /\ idx' = idx + 1
               /\ results' = results
               /\ error' = NoError /\ returned' = NoValue
          ELSE /\ pc' = "threw"
               /\ error'.kind = "NotFound" /\ error'.about = secretRequests[idx].path
               /\ returned' = NoValue]_vars

\* a 404 skipped after results were appended, and the batch then completed
C4_Witness ==
    /\ pc = "done"
    /\ Len(trail) = 3
    /\ trail[2].how = "notfound"
    /\ Len(returned.list) > 1
    /\ Allowed(1) /\ Allowed(3)

\* C5: when the transport fails with an error other than 404, getSecrets
\* fails at once with that same error whatever the policy; a failed
\* invocation returns no list, and a list returned without a denial is that
\* of all the requests.
C5_TransportErrorIsFatal ==
    [][/\ Answered("failed") =>
            pc' = "threw" /\ error' = Last(trail').err /\ error' \in TransportErrors
       /\ pc' = "threw" => returned' = NoValue
       /\ (pc' = "done" /\ \A i \in 1..Len(trail') : trail'[i].gate # "deny")
            => idx' = Len(secretRequests) + 1 /\ returned' = Value(results')]_vars

\* an error with no response, under the ignore policy, after results were appended
C5_Witness ==
    /\ pc = "threw"
    /\ error = Err("RequestError", <<>>)
    /\ PolicyEnabled
    /\ Len(results) > 0
    /\ returned = NoValue

\* the five attributes with the values of process.env they are matched against
Attributes(e) ==
    { <<K_PODNAME, e.JOB_POD_NAME>>, <<K_NAMESPACE, e.JOB_POD_NAMESPACE>>,
      <<K_SERVICEACCOUNT, e.JOB_POD_SERVICEACCOUNT>>, <<K_ACTOR, e.GITHUB_ACTOR>>,
      <<K_REPO, e.GITHUB_REPOSITORY>> }

\* C6: isAllowed returns allow if and only if all five attributes are in
\* payloadData and the context's value matches each attribute's value taken
\* as the glob pattern; a missing attribute or one mismatch gives deny.
C6_AllowIffAllFiveMatch ==
    (reply.done /\ call.fn = "isAllowed" /\ call.data.t = "object")
        => /\ ~reply.out.threw
           /\ reply.out.val <=>
                 \A a \in Attributes(env) :
                    /\ \E i \in 1..Len(call.data.e) : call.data.e[i].k = a[1]
                    /\ minimatch(a[2], Get(call.data, a[1]).s)

\* allow, the pod name matched by a pattern that is no plain name
C6_Witness ==
    /\ reply.done /\ call.fn = "isAllowed"
    /\ ~reply.out.threw /\ reply.out.val
    /\ Get(call.data, K_PODNAME).s = <<"p", "o", "d", "-", "*">>

RawOf(doc) == CHOOSE raw \in 1..Len(Documents) : Documents[raw] = doc

\* C7: a request whose payload has the flatter shape, its attributes all
\* matching, has the gate run on them and allow, and does not fail for the
\* want of an inner data object.
C7_FlatShapeTolerated ==
    (trail # <<>> /\ Last(trail).raw = RawOf(DocFlat) /\ pc # "resolve")
        => Last(trail).gate = "allow" /\ ~(pc = "threw" /\ error = TypeError)

\* C8: a wildcard request over an allowed payload appends one result per
\* eligible key, in order, none for a key with a reserved prefix, and the
\* batch goes on, also when no key is eligible.
C8_WildcardExpansion ==
    [][(ResolvesAllowed /\ secretRequests[idx].selector \in {WILDCARD, WILDCARD_UPPERCASE})
          => LET keys == EligibleKeys(InnerDataIn(trail', idx)) IN
             /\ pc' = "loop" /\ idx' = idx + 1
             /\ Len(results') = Len(results) + Len(keys)
             /\ SubSeq(results', 1, Len(results)) = results
             /\ \A j \in 1..Len(keys) :
                   results'[Len(results) + j].request.selector = keys[j]]_vars

\* both cases: a wildcard request that gave nothing, then one that gave a
\* result for the key with a '.'
C8_Witness ==
    /\ Len(trail) >= 2
    /\ Allowed(1) /\ Allowed(2)
    /\ secretRequests[1].selector = WILDCARD /\ trail[1].raw = RawOf(DocNoKeys)
    /\ secretRequests[2].selector = WILDCARD /\ trail[2].raw = RawOf(DocNested)
    /\ Len(results) = 3
    /\ results[3].request.selector = C_DOT_D

\* C9: a request with a non-wildcard selector that the allowed payload has a
\* value for appends exactly one result, for the request itself, whose value
\* is the selected value: a string as it is, anything else as JSON text; a
\* list returned after all requests holds one result per such request.
C9_OneUnwrappedResult ==
    [][/\ (/\ ResolvesAllowed
           /\ secretRequests[idx].selector \notin {WILDCARD, WILDCARD_UPPERCASE}
           /\ Get(InnerDataIn(trail', idx), secretRequests[idx].selector) # Undefined)
          => /\ pc' = "loop"
             /\ results' = Append(results,
                   [request |-> secretRequests[idx],
                    value |-> ValueOf(InnerDataIn(trail', idx), secretRequests[idx].selector),
                    cachedResponse |-> cachedResponse])
       /\ (pc' = "done" /\ idx' > Len(secretRequests))
          => LET expected == Contributions(trail', Len(secretRequests)) IN
             /\ Len(returned'.list) = Len(expected)
             /\ \A j \in 1..Len(expected) :
                   secretRequests[expected[j].i].selector \notin {WILDCARD, WILDCARD_UPPERCASE}
                      => returned'.list[j] =
                            [request |-> secretRequests[expected[j].i],
                             value |-> ValueOf(InnerDataIn(trail', expected[j].i), expected[j].key),
                             cachedResponse |-> trail'[expected[j].i].how = "cached"]]_vars

\* a string from a fetched payload and a number from the cached one
C9_Witness ==
    /\ pc = "done"
    /\ Len(returned.list) = 2
    /\ returned.list[1].value = BAR /\ ~returned.list[1].cachedResponse
    /\ returned.list[2].value = <<"7">> /\ returned.list[2].cachedResponse
    /\ returned.list[2].request = secretRequests[2]

\* the selector gives nothing on the document, the retry included where it applies
NothingSelected(data, selector) ==
    /\ Evaluate(jsonata(selector), data) = Undefined
    /\ Compat(jsonata(selector), data, selector)
          => Evaluate(jsonata(DATA_DOT \o selector), data) = Undefined

\* C10: whenever a selector gives nothing, after the retry where the retry
\* applies, selectData fails with the SelectorNotFound error that names the
\* selector.
C10_SelectorNotFound ==
    (/\ reply.done /\ call.fn = "selectData"
     /\ jsonata(call.selector).type # "error"
     /\ NothingSelected(call.data, call.selector))
        => reply.out.threw /\ reply.out.err = SelectorNotFound(call.selector)

\* the name a wildcard request gives the key before it is normalized: the key
\* alone when the request's selector is its outputVarName, else the request's
\* own name followed by the key
Named(secretRequest, own, key) ==
    IF secretRequest.selector = secretRequest.outputVarName THEN key ELSE own \o key

\* C11: every result a wildcard request appends has its envVarName
\* normalized with forced upper-casing when the request's marker is the
\* upper-case one, and without when it is the lower-case one, whatever the
\* markers of the requests before it were.
C11_UpperCasePerRequest ==
    [][(ResolvesAllowed /\ secretRequests[idx].selector \in {WILDCARD, WILDCARD_UPPERCASE})
          => LET keys == EligibleKeys(InnerDataIn(trail', idx))
                 forced == secretRequests[idx].selector = WILDCARD_UPPERCASE
             IN  /\ upperCaseEnv' = forced
                 /\ \A j \in 1..Len(keys) :
                       LET name == results'[Len(results) + j].request.envVarName IN
                       /\ name = normalizeOutputKey(
                                    Named(secretRequests[idx], secretRequests[idx].envVarName,
                                          keys[j]), forced)
                       /\ forced => name = ToUpperCase(name)
                       /\ ~forced => name = normalizeOutputKey(keys[j], FALSE)]_vars

\* an upper-case wildcard request, then a lower-case one over the same
\* payload: PFOO from the first, foo from the second
C11_Witness ==
    /\ Len(trail) = 2 /\ pc = "loop"
    /\ secretRequests[1].selector = WILDCARD_UPPERCASE
    /\ secretRequests[2].selector = WILDCARD
    /\ Len(results) = 6
    /\ results[1].request.envVarName = <<"P", "F", "O", "O">>
    /\ results[4].request.envVarName = FOO

\* C12: the objects of secretRequests keep the path, selector, outputVarName
\* and envVarName they were given, however the invocation ends; every result
\* holds the fields of the object it refers to; a result of a wildcard
\* request refers to an object of its own that did not exist before, and a
\* result of any other request refers to the object of that request.
C12_RequestsNotMutated ==
    [][/\ \A i \in 1..Len(secretRequests) : heap'[i] = secretRequests[i]
       /\ Len(refs') = Len(results')
       /\ \A j \in 1..Len(results') : results'[j].request = heap'[refs'[j]]
       /\ \A j \in 1..Len(refs) : refs'[j] = refs[j]
       /\ \A j \in (Len(refs) + 1)..Len(refs') :
             IF secretRequests[idx].selector \in {WILDCARD, WILDCARD_UPPERCASE}
             THEN /\ refs'[j] > Len(heap)
                  /\ \A k \in 1..Len(refs') : refs'[k] = refs'[j] => k = j
             ELSE refs'[j] = idx]_vars

\* a returned list with the results of a wildcard request and of another
\* request, the objects of both requests being as they were given
C12_Witness ==
    /\ pc = "done"
    /\ Len(secretRequests) = 2
    /\ secretRequests[1].selector = WILDCARD_UPPERCASE
    /\ secretRequests[2].selector = FOO
    /\ Len(returned.list) = 4
    /\ refs = <<3, 4, 5, 2>>
    /\ heap[1] = secretRequests[1] /\ heap[2] = secretRequests[2]

\* the raw body is a payload: JSON text of an object with a data field
IsPayload(raw) ==
    /\ ~JSONParse(raw).threw
    /\ Get(JSONParse(raw).val, DATA).t = "object"

\* the requests of the history tr whose resolution had the gate called
GateEvaluations(tr) == {i \in 1..Len(tr) : tr[i].gate # "none"}

\* the requests of the history tr that obtained a payload body, from the
\* transport or from the cache
ObtainedPayload(tr) ==
    {i \in 1..Len(tr) : tr[i].how \in {"fetched", "cached"} /\ IsPayload(tr[i].raw)}

\* C13: the resolution of a request that obtained a payload body, from the
\* transport or from the Response Cache, has the Authorization Gate called on
\* that payload; results are appended only in a resolution whose gate
\* allowed; and after each resolution the requests the gate was called for
\* are the requests that obtained a payload body.
C13_CacheHitIsGated ==
    [][/\ (pc = "resolve" /\ IsPayload(body))
            => /\ Last(trail').gate # "none"
               /\ Last(trail').raw = body
               /\ Last(trail').how = (IF cachedResponse THEN "cached" ELSE "fetched")
       /\ results' # results => pc = "resolve" /\ Last(trail').gate = "allow"
       /\ pc' # "resolve" => GateEvaluations(trail') = ObtainedPayload(trail')]_vars

\* three requests for one path: the body fetched once, the gate called three times
C13_Witness ==
    /\ pc = "done"
    /\ Len(gets) = 1
    /\ Len(trail) = 3
    /\ trail[2].how = "cached" /\ trail[3].how = "cached"
    /\ Cardinality(GateEvaluations(trail)) = 3
    /\ Len(returned.list) >= 3

\* the text selectData returns for the value v: a string as it is, anything
\* else as its JSON text
TextOf(v) == IF v.t = "string" THEN v.s ELSE JSONStringify(v).s

\* the four conditions of the retry for a call of selectData
RetryConditions(data, selector) ==
    /\ Evaluate(jsonata(selector), data) = Undefined
    /\ \/ jsonata(selector).type = "path" /\ Len(jsonata(selector).steps) = 1
       \/ jsonata(selector).type = "string"
    /\ selector # <<"d", "a", "t", "a">>
    /\ \E i \in 1..Len(data.e) : data.e[i].k = <<"d", "a", "t", "a">>

\* what the retry looks up: the field the selector names, under data
UnderData(data, selector) ==
    Get(Get(data, <<"d", "a", "t", "a">>), jsonata(selector).steps[1].value)

\* selectData answers by the retry exactly when the four conditions hold:
\* a first evaluation that gives a value gives the answer; an empty one that
\* meets the conditions gives the value under data, or a failure when there
\* is none; an empty one that does not gives the SelectorNotFound error
RetryRule ==
    (reply.done /\ call.fn = "selectData" /\ jsonata(call.selector).type # "error")
        => IF Evaluate(jsonata(call.selector), call.data) # Undefined
           THEN reply.out = Ret(TextOf(Evaluate(jsonata(call.selector), call.data)))
           ELSE IF RetryConditions(call.data, call.selector)
           THEN IF UnderData(call.data, call.selector) # Undefined
                THEN reply.out = Ret(TextOf(UnderData(call.data, call.selector)))
                ELSE reply.out.threw
           ELSE reply.out = Throw(SelectorNotFound(call.selector))

\* C14 as claimed: the retry rule, and with it the selector foo gives bar on
\* {data: {data: {foo: bar}}} and on the flatter {data: {foo: bar}}.
C14_FooOnBothShapes ==
    /\ RetryRule
    /\ (reply.done /\ call.selector = FOO /\ call.data \in {DocFooNested, DocFooFlat})
          => reply.out = Ret(BAR)

\* C14 as amended: the retry rule, and with it the selector foo gives bar on
\* the flatter {data: {foo: bar}}; on {data: {data: {foo: bar}}} the retry
\* looks up data.foo, finds nothing, and selectData fails, while the
\* selector data.data.foo that selectAndAppendResults builds for that shape
\* gives bar without a retry.
C14_RetryOneLevel ==
    /\ RetryRule
    /\ (reply.done /\ call.selector = FOO /\ call.data = DocFooFlat)
          => reply.out = Ret(BAR)
    /\ (reply.done /\ call.selector = FOO /\ call.data = DocFooNested)
          => reply.out.threw
    /\ (reply.done /\ call.data = DocFooNested
            /\ call.selector = FullSelector(FOO, DocFooNested))
          => reply.out = Ret(BAR) /\ ~RetryConditions(call.data, call.selector)

\* foo on the flatter shape: nothing at the top, bar by the retry
C14_Witness ==
    /\ reply.done /\ call.fn = "selectData"
    /\ call.data = DocFooFlat /\ call.selector = FOO
    /\ RetryConditions(call.data, call.selector)
    /\ reply.out = Ret(BAR)

\* C15: the request derived for the eligible key k of a wildcard request has
\* the path of the original and k as its selector; its outputVarName and
\* envVarName are the normalization of k when the original's selector
\* equals its outputVarName, and otherwise the normalization of the
\* original's outputVarName followed by k and of its envVarName followed by
\* k, the envVarName upper-cased under the upper-case marker.
C15_DerivedNames ==
    [][(ResolvesAllowed /\ secretRequests[idx].selector \in {WILDCARD, WILDCARD_UPPERCASE})
          => LET keys == EligibleKeys(InnerDataIn(trail', idx))
                 original == secretRequests[idx]
                 byKey == original.selector = original.outputVarName
             IN  \A j \in 1..Len(keys) :
                    LET derived == results'[Len(results) + j].request IN
                    /\ derived.path = original.path
                    /\ derived.selector = keys[j]
                    /\ derived.outputVarName =
                          normalizeOutputKey(
                              IF byKey THEN keys[j] ELSE original.outputVarName \o keys[j],
                              FALSE)
                    /\ derived.envVarName =
                          normalizeOutputKey(
                              IF byKey THEN keys[j] ELSE original.envVarName \o keys[j],
                              original.selector = WILDCARD_UPPERCASE)]_vars

\* both rules: pfoo and PFOO from the names p- and the key foo, then c__d
\* twice from the key c.d alone
C15_Witness ==
    /\ Len(results) = 6
    /\ secretRequests[1].outputVarName = PRE /\ secretRequests[1].selector # PRE
    /\ results[1].request.selector = FOO
    /\ results[1].request.outputVarName = <<"p", "f", "o", "o">>
    /\ results[1].request.envVarName = <<"P", "F", "O", "O">>
    /\ secretRequests[2].outputVarName = secretRequests[2].selector
    /\ results[6].request.selector = C_DOT_D
    /\ results[6].request.outputVarName = <<"c", "_", "_", "d">>
    /\ results[6].request.envVarName = <<"c", "_", "_", "d">>
    /\ results[6].request.path = secretRequests[2].path

\* the requests of the history tr that a transport get was issued for
Fetches(tr) == {i \in 1..Len(tr) : tr[i].how # "cached"}

\* C16: every result a resolution appends, those of one wildcard request
\* alike, has cachedResponse true if and only if the request's body came
\* from the Response Cache with no transport get issued for the request; the
\* results of the fetch that put the path in the cache have it false; and
\* the flag of a result, once appended, stays.
C16_CachedResponseFlag ==
    [][/\ pc = "resolve"
            => /\ \A j \in (Len(results) + 1)..Len(results') :
                     results'[j].cachedResponse = (Last(trail).how = "cached")
               /\ Last(trail).how = "fetched"
                     => /\ Last(gets) = Last(trail).path
                        /\ \A i \in 1..(Len(trail) - 1) :
                              trail[i].path = Last(trail).path => trail[i].how = "notfound"
               /\ Last(trail).how = "cached"
                     => \E i \in 1..(Len(trail) - 1) :
                           /\ trail[i].path = Last(trail).path
                           /\ trail[i].how = "fetched"
                           /\ trail[i].raw = Last(trail).raw
       /\ Len(results') >= Len(results)
            => \A j \in 1..Len(results) : results'[j] = results[j]
       /\ Cardinality(Fetches(trail')) + (IF pc' = "await" THEN 1 ELSE 0) = Len(gets')]_vars

\* one get: the result of the fetch, then the three results of a wildcard
\* request served from the cache
C16_Witness ==
    /\ pc = "done"
    /\ Len(gets) = 1
    /\ Len(secretRequests) = 2
    /\ secretRequests[2].selector = WILDCARD
    /\ Len(returned.list) = 4
    /\ ~returned.list[1].cachedResponse
    /\ \A j \in 2..4 : returned.list[j].cachedResponse

\* the three ways an invocation ends
Completed ==
    /\ pc = "done" /\ idx = Len(secretRequests) + 1
    /\ returned = Value(results) /\ error = NoError
    /\ \A i \in 1..Len(trail) : trail[i].gate # "deny"
Failed ==
    /\ pc = "threw"
    /\ error # NoError /\ returned = NoValue
Aborted ==
    /\ pc = "done" /\ idx <= Len(secretRequests)
    /\ returned = Value(<<>>) /\ error = NoError
    /\ trail # <<>> /\ Last(trail).gate = "deny"

\* the invocation has ended in exactly one of the three ways
Ended ==
    /\ Completed \/ Failed \/ Aborted
    /\ ~(Completed /\ Failed) /\ ~(Completed /\ Aborted) /\ ~(Failed /\ Aborted)

\* C17: the transport answering every get, the invocation comes to an end
\* and stays there, in exactly one of the three ways: a list returned after
\* all the requests, an error thrown, or the empty list on a denial.
C17_Terminates == <>[]Ended

\* the longest run: three requests, three gets, a list returned
C17_Witness ==
    /\ Completed
    /\ Len(secretRequests) = MaxRequests
    /\ Len(gets) = MaxRequests
    /\ Len(returned.list) > 0

\* the requests of the history tr that were not served from the cache, in order
FetchOrder(tr) ==
    SelectSeq([i \in 1..Len(tr) |-> i], LAMBDA i : tr[i].how # "cached")

\* C18: the gets issued are, in the order of the requests, those of the
\* requests not served from the cache; all of them have been answered but
\* the one getSecrets is awaiting, if it is awaiting one, which is the get of
\* the request the loop is at; and while a get is outstanding nothing is
\* appended, no other request is reached and no other get is issued: the
\* next step is the answer to that get.
C18_OneGetAtATime ==
    [][/\ Len(gets') - Len(FetchOrder(trail')) = (IF pc' = "await" THEN 1 ELSE 0)
       /\ \A k \in 1..Len(FetchOrder(trail')) :
             gets'[k] = V1 \o secretRequests[FetchOrder(trail')[k]].path
       /\ pc' = "await"
            => /\ Len(trail') = idx' - 1
               /\ Last(gets') = V1 \o secretRequests[idx'].path
       /\ idx' \in {idx, idx + 1}
       /\ Len(trail') \in {idx' - 1, idx'}
       /\ pc = "await"
            => /\ results' = results /\ refs' = refs /\ gets' = gets
               /\ Len(trail') = idx
               /\ Last(trail').path = Last(gets)
               /\ Last(trail').how \in {"fetched", "notfound", "failed"}]_vars

\* the third get outstanding, the two before answered and resolved
C18_Witness ==
    /\ pc = "await"
    /\ Len(gets) = 3
    /\ Len(trail) = 2
    /\ idx = 3
    /\ Len(results) > 0

\* C19: the Response Cache holds, for a path, the body a get for that path
\* returned in this invocation, and holds one for every path a get returned
\* a body for; an entry once written is neither changed nor removed; a get
\* answered by 404 or by another error writes none, so that the next
\* request for that path finds none and issues a get.
C19_CacheContents ==
    [][/\ \A p \in DOMAIN responseCache' :
             \E i \in 1..Len(trail') :
                /\ trail'[i].how = "fetched"
                /\ trail'[i].path = p
                /\ trail'[i].raw = responseCache'[p]
       /\ \A i \in 1..Len(trail') :
             trail'[i].how = "fetched" => trail'[i].path \in DOMAIN responseCache'
       /\ \A p \in DOMAIN responseCache :
             p \in DOMAIN responseCache' /\ responseCache'[p] = responseCache[p]
       /\ (Answered("notfound") \/ Answered("failed")) => responseCache' = responseCache
       /\ (/\ pc = "loop" /\ idx <= Len(secretRequests)
           /\ V1 \o secretRequests[idx].path \notin DOMAIN responseCache)
            => pc' = "await" /\ gets' = Append(gets, V1 \o secretRequests[idx].path)]_vars

\* a path that answered 404, skipped, is fetched again for the next request
\* and only then is in the cache; a second path is in the cache beside it
C19_Witness ==
    /\ Len(trail) = 3
    /\ trail[1].how = "fetched"
    /\ trail[2].how = "notfound"
    /\ trail[3].how = "fetched" /\ trail[3].path = trail[2].path
    /\ trail[1].path # trail[2].path
    /\ DOMAIN responseCache = {trail[1].path, trail[3].path}
    /\ responseCache[trail[3].path] = trail[3].raw
    /\ gets = <<trail[1].path, trail[2].path, trail[2].path>>

\* the answers the transport gave in the history tr, in the order of the gets
AnswerOf(t) ==
    IF t.how = "fetched" THEN Body(t.raw)
    ELSE IF t.how = "notfound" THEN Status404
    ELSE Failure(t.err)
ScriptOf(tr) == [k \in 1..Len(FetchOrder(tr)) |-> AnswerOf(tr[FetchOrder(tr)[k]])]

\* getSecrets as a function ends as the invocation taken step by step did,
\* given the answers the transport gave it
StepsAgree ==
    /\ pc = "done"
          => getSecrets(secretRequests, ScriptOf(trail), FALSE, ignoreInput, env)
                = Ret(returned.list)
    /\ pc = "threw"
          => getSecrets(secretRequests, ScriptOf(trail), FALSE, ignoreInput, env)
                = Throw(error)

\* C20: an invocation ends as the invocation with the other value of the
\* ignoreNotFound argument does, the requests, the transport's answers, the
\* context and the ignoreNotFound input being the same; and when the first
\* get is answered 404 the invocation fails with the not-found error where
\* the input is not set, and goes on where the input is set to true.
C20_ArgumentIgnored ==
    (reply.done /\ call.fn = "getSecrets")
        => /\ reply.out = getSecrets(secretRequests, call.answers, ~call.ignoreNotFound,
                                     ignoreInput, env)
           /\ call.answers[1] = Status404
                => IF ignoreInput = <<>>
                   THEN reply.out = Throw(NotFound(secretRequests[1].path))
                   ELSE reply.out # Throw(NotFound(secretRequests[1].path))

\* the argument true and the input not set: the 404 of the second get is
\* fatal all the same, after the first request gave results
C20_Witness ==
    /\ reply.done /\ call.fn = "getSecrets"
    /\ call.ignoreNotFound /\ ignoreInput = <<>>
    /\ Len(secretRequests) >= 2
    /\ secretRequests[1].path # secretRequests[2].path
    /\ call.answers[1] = Body(1) /\ call.answers[2] = Status404
    /\ reply.out = Throw(NotFound(secretRequests[2].path))

=============================================================================
